---- MODULE Spec2Model ----
(***************************************************************************)
(* Inventory Management System (src/app.py): a Streamlit script over one   *)
(* Excel workbook.  Every operator interaction re-runs the whole script:   *)
(* the seven sheets are loaded, the reminders are computed, the handler of *)
(* the submitted form or pressed button runs, and the tabs are rendered.   *)
(* One action of this module is one such script run.  The DataFrames live  *)
(* within one run (the next run loads the sheets again), so the state that *)
(* passes from run to run is the workbook and the widgets' session state;  *)
(* Script(f, chq, own, ev).df is what a run holds in memory when it ends.  *)
(*                                                                         *)
(* Cells.  A date cell is a record [k, d]: k = "date" holds day number d,  *)
(* k = "text" is a cell pandas cannot parse as a date, k = "na" is an      *)
(* empty cell.  A nullable number (BoughtPrice) is a set: {} is pd.NA and  *)
(* {p} the number p.  The item code None (selectbox over no options) is    *)
(* the string "None".                                                      *)
(*                                                                         *)
(* Outside the source: an uncaught exception stops the script run, and     *)
(* Streamlit keeps the state of every keyed widget across runs, also       *)
(* across a run that an exception stopped.  save_sheet either replaces the *)
(* sheet or raises and leaves the workbook as it was.                      *)
(***************************************************************************)
EXTENDS Integers, Sequences, FiniteSets, TLC

VARIABLES
    file,       \* the workbook inventory_system.xlsx: sheet name -> rows
    chq_state,  \* session state of the checkboxes chq_<i>
    own_state,  \* session state of the checkboxes own_<i>
    today,      \* datetime.date.today() as a day number
    alerts,     \* cheques_due_soon, owing_due_soon of the latest run
    last,       \* the interaction the latest run handled and how it ended
    sheet,      \* a sheet as pd.read_excel returns it (schema check)
    loaded      \* what load_sheet made of it (schema check)

vars == <<file, chq_state, own_state, today, alerts, last, sheet, loaded>>

ledgerVars == <<file, chq_state, own_state, alerts, last>>

\* ------------------------------------------------------------------ bounds

MaxQty == 2
MaxRows == 3
MaxCheques == 2
MaxExpenses == 1
MaxDueRows == 2
MaxDay == 2
MaxSheetRows == 1

\* ------------------------------------------------------- program constants

PriceColumns == {"Price1", "Price2", "Price3"}

InvoiceTypes == {"Cash", "Credit"}

BoolColumns == {"Paid", "Claimed"}

required_sheets ==
    [Stock |-> <<"ItemCode", "Item", "Stock", "Price1", "Price2", "Price3">>,
     Sales |-> <<"Date", "ItemCode", "Qty", "Price", "Total", "InvoiceType", "InvoiceID">>,
     StockUpdate |-> <<"Date", "ItemCode", "Qty", "Type", "BoughtPrice">>,
     Cheques |-> <<"Date", "FutureDate", "ItemCode", "Qty", "Amount", "Claimed">>,
     Expenses |-> <<"Month", "Type", "Amount">>,
     BillToBill |-> <<"Date", "InvoiceID", "Amount", "DueDate", "Paid">>,
     OwingPurchases |-> <<"Date", "InvoiceID", "Amount", "DueDate", "Paid">>]

SheetNames == DOMAIN required_sheets

\* ---------------------------------------------------------------- helpers

Range(s) == {s[i] : i \in 1..Len(s)}

RECURSIVE SumSeq(_)
SumSeq(s) == IF Len(s) = 0 THEN 0 ELSE Head(s) + SumSeq(Tail(s))

SelectQty(rows, code) ==
    LET RECURSIVE Go(_)
        Go(s) == IF Len(s) = 0 THEN <<>>
                 ELSE IF Head(s).ItemCode = code
                      THEN <<Head(s).Qty>> \o Go(Tail(s))
                      ELSE Go(Tail(s))
    IN  Go(rows)

DateCell(d) == [k |-> "date", d |-> d]
TextCell == [k |-> "text", d |-> 0]
NaCell == [k |-> "na", d |-> 0]
NaT == [k |-> "na", d |-> 0]

\* ------------------------------------------------------------ persistence

\* Every workbook of Init carries the required columns of every sheet, so
\* the ensure_columns call of load_sheet (modelled on sheets with arbitrary
\* columns further down) adds nothing here.
load_sheet(f, name) == f[name]

LoadAll(f) == [name \in SheetNames |-> load_sheet(f, name)]

\* The save_sheet calls of one handler, in order; the fail-th of the run
\* raises (fail = 0: none does).  s.saved counts the calls that returned.
\* Mutant: the exception of a failing save is swallowed and the handler goes
\* on to its next save.
save_sheet_swallowed(s, name, fail) ==
    IF s.status # "ok" THEN s
    ELSE IF fail = s.saved + 1 THEN [s EXCEPT !.saved = @ + 1]
    ELSE [s EXCEPT !.file = [@ EXCEPT ![name] = s.df[name]], !.saved = @ + 1]

save_sheet(s, name, fail) ==
    IF s.status # "ok" THEN s
    ELSE IF fail = s.saved + 1 THEN [s EXCEPT !.status = "OSError"]
    ELSE [s EXCEPT !.file = [@ EXCEPT ![name] = s.df[name]], !.saved = @ + 1]

\* ---------------------------------------------------------------- reminders

HorizonDays == 3

to_date(cell) == IF cell.k = "date" THEN cell ELSE NaT

\* Mutant: the test days_left >= 0 is missing, so overdue rows count.
due_soon_alert_overdue(rows, date_col, bool_col, day) ==
    \E i \in 1..Len(rows) :
        /\ ~rows[i][bool_col]
        /\ to_date(rows[i][date_col]) # NaT
        /\ to_date(rows[i][date_col]).d - day <= HorizonDays

due_soon_alert(rows, date_col, bool_col, day) ==
    LET RECURSIVE Loop(_)
        Loop(i) ==
            IF i > Len(rows) THEN FALSE
            ELSE LET row == rows[i]
                     date == to_date(row[date_col])
                 IN  IF ~row[bool_col] /\ date # NaT
                     THEN LET days_left == date.d - day
                          IN  IF days_left <= HorizonDays /\ days_left >= 0
                              THEN TRUE
                              ELSE Loop(i + 1)
                     ELSE Loop(i + 1)
    IN  Loop(1)

Alerts(f, day) ==
    [cheques |-> due_soon_alert(load_sheet(f, "Cheques"), "FutureDate", "Claimed", day),
     owing |-> due_soon_alert(load_sheet(f, "OwingPurchases"), "DueDate", "Paid", day)]

\* ------------------------------------------------ Sales & Stock Update tab

Matching(stock, item_code) ==
    {i \in 1..Len(stock) : stock[i].ItemCode = item_code}

\* stock_df["ItemCode"].unique() behind st.selectbox: one of the codes, or
\* None when the Stock sheet has no rows.
Options(stock) ==
    IF Len(stock) = 0 THEN {"None"} ELSE {stock[i].ItemCode : i \in 1..Len(stock)}

First(S) == CHOOSE i \in S : \A j \in S : i <= j

\* Mutant: Total is the unit price, not qty * price.
SaleRow_unit_total(ev, selling_price) ==
    [Date |-> ev.date, ItemCode |-> ev.item_code, Qty |-> ev.qty,
     Price |-> selling_price, Total |-> selling_price,
     InvoiceType |-> ev.invoice_type, InvoiceID |-> ev.invoice_id]

SaleRow(ev, selling_price) ==
    [Date |-> ev.date, ItemCode |-> ev.item_code, Qty |-> ev.qty,
     Price |-> selling_price, Total |-> ev.qty * selling_price,
     InvoiceType |-> ev.invoice_type, InvoiceID |-> ev.invoice_id]

\* Mutant: the movement of a sale is logged with the sign of a restock.
SaleUpdateRow_positive(ev) ==
    [Date |-> ev.date, ItemCode |-> ev.item_code, Qty |-> ev.qty,
     Type |-> "Sale", BoughtPrice |-> {}]

SaleUpdateRow(ev) ==
    [Date |-> ev.date, ItemCode |-> ev.item_code, Qty |-> -ev.qty,
     Type |-> "Sale", BoughtPrice |-> {}]

RestockUpdateRow(ev) ==
    [Date |-> ev.date, ItemCode |-> ev.item_code, Qty |-> ev.qty,
     Type |-> "Restock", BoughtPrice |-> {ev.bought_price}]

DecrementStock(stock, item_code, qty) ==
    [i \in 1..Len(stock) |->
        IF stock[i].ItemCode = item_code
        THEN [stock[i] EXCEPT !.Stock = @ - qty] ELSE stock[i]]

\* Mutant: only the first row with the item code is restocked.
IncrementStock_first_row(stock, item_code, qty) ==
    [i \in 1..Len(stock) |->
        IF Matching(stock, item_code) # {} /\ i = First(Matching(stock, item_code))
        THEN [stock[i] EXCEPT !.Stock = @ + qty] ELSE stock[i]]

IncrementStock(stock, item_code, qty) ==
    [i \in 1..Len(stock) |->
        IF stock[i].ItemCode = item_code
        THEN [stock[i] EXCEPT !.Stock = @ + qty] ELSE stock[i]]

SaleSaves(s, fail) ==
    save_sheet(save_sheet(save_sheet(s, "Sales", fail), "StockUpdate", fail),
               "Stock", fail)

RestockSaves(s, fail) ==
    save_sheet(save_sheet(s, "StockUpdate", fail), "Stock", fail)

\* Mutant: no row is looked up when the code is unknown; the sale goes
\* through at price 0.
sale_form_no_lookup(s, ev) ==
    IF s.status # "ok" \/ ev.op # "recordSale" THEN s
    ELSE LET m == Matching(s.df.Stock, ev.item_code)
             selling_price == IF m = {} THEN 0 ELSE s.df.Stock[First(m)][ev.price_col]
             d == [s.df EXCEPT
                     !.Sales = Append(@, SaleRow(ev, selling_price)),
                     !.StockUpdate = Append(@, SaleUpdateRow(ev)),
                     !.Stock = DecrementStock(@, ev.item_code, ev.qty)]
         IN  SaleSaves([s EXCEPT !.df = d], ev.fail)

sale_form(s, ev) ==
    IF s.status # "ok" \/ ev.op # "recordSale" THEN s
    ELSE IF Matching(s.df.Stock, ev.item_code) = {}
    THEN [s EXCEPT !.status = "IndexError"]
    ELSE LET item_row == s.df.Stock[First(Matching(s.df.Stock, ev.item_code))]
             selling_price == item_row[ev.price_col]
             d == [s.df EXCEPT
                     !.Sales = Append(@, SaleRow(ev, selling_price)),
                     !.StockUpdate = Append(@, SaleUpdateRow(ev)),
                     !.Stock = DecrementStock(@, ev.item_code, ev.qty)]
         IN  SaleSaves([s EXCEPT !.df = d], ev.fail)

stock_update_form(s, ev) ==
    IF s.status # "ok" \/ ev.op # "restock" THEN s
    ELSE LET d == [s.df EXCEPT
                     !.StockUpdate = Append(@, RestockUpdateRow(ev)),
                     !.Stock = IncrementStock(@, ev.item_code, ev.qty)]
         IN  RestockSaves([s EXCEPT !.df = d], ev.fail)

\* ------------------------------------------------------------- Cheques tab

ChequeRow(ev) ==
    [Date |-> DateCell(ev.date), FutureDate |-> DateCell(ev.future_date),
     ItemCode |-> ev.item_code, Qty |-> ev.qty, Amount |-> ev.amount,
     Claimed |-> FALSE]

add_cheque(s, ev) ==
    IF s.status # "ok" \/ ev.op # "add_cheque" THEN s
    ELSE save_sheet([s EXCEPT !.df.Cheques = Append(@, ChequeRow(ev))],
                    "Cheques", ev.fail)

\* st.checkbox(..., value=row[col], key=...): the session state of the key
\* when the widget was rendered before, else the default value.
Checkbox(state, i, value) == IF i <= Len(state) THEN state[i] ELSE value

CheckboxLoop(rows, state, col) ==
    [i \in 1..Len(rows) |-> [rows[i] EXCEPT ![col] = Checkbox(state, i, rows[i][col])]]

Flags(rows, col) == [i \in 1..Len(rows) |-> rows[i][col]]

\* Mutant: the checkbox is rendered but its value is not written to the row.
update_claimed_status_unassigned(s, ev) ==
    IF s.status # "ok" THEN s
    ELSE [s EXCEPT !.chq = Flags(CheckboxLoop(s.df.Cheques, s.chq, "Claimed"), "Claimed")]

update_claimed_status(s, ev) ==
    IF s.status # "ok" THEN s
    ELSE LET rows == CheckboxLoop(s.df.Cheques, s.chq, "Claimed")
         IN  [s EXCEPT !.df.Cheques = rows, !.chq = Flags(rows, "Claimed")]

save_cheque_updates(s, ev) ==
    IF s.status # "ok" \/ ev.op # "save_cheques" THEN s
    ELSE save_sheet(s, "Cheques", ev.fail)

\* ---------------------------------------------------- Monthly Payments tab

strftime_Ym(day) == day \div 30

ExpenseRow(ev) ==
    [Month |-> strftime_Ym(ev.date), Type |-> ev.type, Amount |-> ev.amount]

add_expense(s, ev) ==
    IF s.status # "ok" \/ ev.op # "add_expense" THEN s
    ELSE save_sheet([s EXCEPT !.df.Expenses = Append(@, ExpenseRow(ev))],
                    "Expenses", ev.fail)

\* ----------------------------------------------------- Owing Purchases tab

update_paid_status(s, ev) ==
    IF s.status # "ok" THEN s
    ELSE LET rows == CheckboxLoop(s.df.OwingPurchases, s.own, "Paid")
         IN  [s EXCEPT !.df.OwingPurchases = rows, !.own = Flags(rows, "Paid")]

save_owing_updates(s, ev) ==
    IF s.status # "ok" \/ ev.op # "save_owing" THEN s
    ELSE save_sheet(s, "OwingPurchases", ev.fail)

\* ------------------------------------------------------------ one script run

\* A click on a checkbox reaches the script as the new session state of its
\* key; every other interaction leaves the checkbox states as they were.
Clicked(state, ev, op) ==
    IF ev.op = op
    THEN [i \in 1..Len(state) |-> IF i = ev.row THEN ~state[i] ELSE state[i]]
    ELSE state

Script(f, chq, own, ev) ==
    LET s0 == [file |-> f, df |-> LoadAll(f),
               chq |-> Clicked(chq, ev, "toggle_cheque"),
               own |-> Clicked(own, ev, "toggle_owing"),
               status |-> "ok", saved |-> 0]
        s1 == stock_update_form(sale_form(s0, ev), ev)
        s2 == save_cheque_updates(update_claimed_status(add_cheque(s1, ev), ev), ev)
        s3 == add_expense(s2, ev)
    IN  save_owing_updates(update_paid_status(s3, ev), ev)

\* ------------------------------------------------------------ schema check

\* A DataFrame with arbitrary columns: the column labels in order, and one
\* sequence of cells per row.
Frame(columns, data) == [columns |-> columns, data |-> data]

EmptyFrame == Frame(<<>>, <<>>)

DefaultCell(col) == IF col \in BoolColumns THEN "False" ELSE "NA"

AddColumn(frame, col) ==
    Frame(Append(frame.columns, col),
          [r \in 1..Len(frame.data) |-> Append(frame.data[r], DefaultCell(col))])

\* Mutant: every required column is added, present or not.
ensure_columns_unchecked(frame, required_cols) ==
    LET RECURSIVE Loop(_, _)
        Loop(fr, i) ==
            IF i > Len(required_cols) THEN fr
            ELSE Loop(AddColumn(fr, required_cols[i]), i + 1)
    IN  Loop(frame, 1)

ensure_columns(frame, required_cols) ==
    LET RECURSIVE Loop(_, _)
        Loop(fr, i) ==
            IF i > Len(required_cols) THEN fr
            ELSE IF required_cols[i] \notin Range(fr.columns)
                 THEN Loop(AddColumn(fr, required_cols[i]), i + 1)
                 ELSE Loop(fr, i + 1)
    IN  Loop(frame, 1)

\* ------------------------------------------------------------- interactions

NoEvent ==
    [op |-> "rerun", date |-> 0, item_code |-> "None", qty |-> 0,
     price_col |-> "Price1", invoice_type |-> "Cash", invoice_id |-> "",
     bought_price |-> 0, future_date |-> 0, amount |-> 0, type |-> "",
     row |-> 0, fail |-> 0]

InvoiceIDs == {"INV-7"}
BoughtPrices == {4}
FutureDates == {2}
Amounts == {50}
ExpenseTypes == {"Rent"}

\* What the page shows of a run: the interaction it handled and how the run
\* ended (ok, or the exception that stopped the script).
Summary(ev, s) == [op |-> ev.op, status |-> s.status]

SaleEvent(date, item_code, qty, price_col, invoice_type, invoice_id, fail) ==
    [NoEvent EXCEPT !.op = "recordSale", !.date = date, !.item_code = item_code,
                    !.qty = qty, !.price_col = price_col,
                    !.invoice_type = invoice_type, !.invoice_id = invoice_id,
                    !.fail = fail]

RestockEvent(date, item_code, qty, bought_price, fail) ==
    [NoEvent EXCEPT !.op = "restock", !.date = date, !.item_code = item_code,
                    !.qty = qty, !.bought_price = bought_price, !.fail = fail]

ToggleChequeEvent(i) == [NoEvent EXCEPT !.op = "toggle_cheque", !.row = i]

SaveChequesEvent(fail) == [NoEvent EXCEPT !.op = "save_cheques", !.fail = fail]

ToggleOwingEvent(i) == [NoEvent EXCEPT !.op = "toggle_owing", !.row = i]

SaveOwingEvent(fail) == [NoEvent EXCEPT !.op = "save_owing", !.fail = fail]

\* The forms' inputs: an item code the selectbox offers, a quantity >= 1,
\* a price column, an invoice type.
\* The submissions of the two stock forms; fail = 0 when every write of the
\* run goes through, fail = k when the k-th write raises.
SaleInputs(f, fails) ==
    {SaleEvent(today, item_code, qty, price_col, invoice_type, invoice_id, fail) :
        item_code \in Options(load_sheet(f, "Stock")), qty \in 1..MaxQty,
        price_col \in PriceColumns, invoice_type \in InvoiceTypes,
        invoice_id \in InvoiceIDs, fail \in fails}

RestockInputs(f, fails) ==
    {RestockEvent(today, item_code, qty, bought_price, fail) :
        item_code \in Options(load_sheet(f, "Stock")), qty \in 1..MaxQty,
        bought_price \in BoughtPrices, fail \in fails}

SaleEvents(f) == SaleInputs(f, {0})

RestockEvents(f) == RestockInputs(f, {0})

FailingSaleEvents(f) == SaleInputs(f, 1..3)

FailingRestockEvents(f) == RestockInputs(f, 1..2)

Run(ev) ==
    LET s == Script(file, chq_state, own_state, ev)
    IN  /\ file' = s.file
        /\ chq_state' = s.chq
        /\ own_state' = s.own
        /\ alerts' = Alerts(file, today)
        /\ last' = Summary(ev, s)
        /\ UNCHANGED <<today, sheet, loaded>>

RecordSale ==
    /\ Len(file.Sales) + Len(file.StockUpdate) + 2 <= MaxRows
    /\ \E ev \in SaleEvents(file) : Run(ev)

Restock ==
    /\ Len(file.Sales) + Len(file.StockUpdate) + 1 <= MaxRows
    /\ \E ev \in RestockEvents(file) : Run(ev)

\* The same two forms when one of the writes raises.
RecordSaleFailing ==
    /\ Len(file.Sales) + Len(file.StockUpdate) + 2 <= MaxRows
    /\ \E ev \in FailingSaleEvents(file) : Run(ev)

RestockFailing ==
    /\ Len(file.Sales) + Len(file.StockUpdate) + 1 <= MaxRows
    /\ \E ev \in FailingRestockEvents(file) : Run(ev)

AddCheque ==
    /\ Len(file.Cheques) < MaxCheques
    /\ \E item_code \in Options(load_sheet(file, "Stock")),
          future_date \in FutureDates, amount \in Amounts, fail \in 0..1 :
            Run([NoEvent EXCEPT !.op = "add_cheque", !.date = today,
                                !.item_code = item_code, !.qty = 1,
                                !.future_date = future_date,
                                !.amount = amount, !.fail = fail])

ToggleCheque ==
    \E i \in 1..Len(chq_state) :
        Run(ToggleChequeEvent(i))

SaveChequeUpdates ==
    \E fail \in 0..1 : Run(SaveChequesEvent(fail))

AddExpense ==
    /\ Len(file.Expenses) < MaxExpenses
    /\ \E type \in ExpenseTypes, amount \in Amounts, fail \in 0..1 :
            Run([NoEvent EXCEPT !.op = "add_expense", !.date = today,
                                !.type = type, !.amount = amount, !.fail = fail])

ToggleOwing ==
    \E i \in 1..Len(own_state) :
        Run(ToggleOwingEvent(i))

SaveOwingUpdates ==
    \E fail \in 0..1 : Run(SaveOwingEvent(fail))

\* The page is opened again on day d: a run with no interaction.
Refresh ==
    \E d \in {today, today + 1} :
        /\ d <= MaxDay
        /\ LET s == Script(file, chq_state, own_state, NoEvent)
           IN  /\ chq_state' = s.chq
               /\ own_state' = s.own
               /\ alerts' = Alerts(file, d)
               /\ today' = d
               /\ last' = Summary(NoEvent, s)
               /\ UNCHANGED <<file, sheet, loaded>>

\* load_sheet on a sheet with arbitrary columns, and save_sheet of the
\* frame it returned.
LoadSheet ==
    /\ loaded' = ensure_columns(sheet.frame, required_sheets[sheet.name])
    /\ UNCHANGED <<ledgerVars, today, sheet>>

SaveSheet ==
    /\ loaded # EmptyFrame
    /\ sheet' = [sheet EXCEPT !.frame = loaded]
    /\ UNCHANGED <<ledgerVars, today, loaded>>

\* ------------------------------------------------------------ initial states

StockRow(code, name, n, p1, p2, p3) ==
    [ItemCode |-> code, Item |-> name, Stock |-> n,
     Price1 |-> p1, Price2 |-> p2, Price3 |-> p3]

OwingRow(id, due, paid) ==
    [Date |-> DateCell(0), InvoiceID |-> id, Amount |-> 40,
     DueDate |-> due, Paid |-> paid]

\* Stock and OwingPurchases have no entry form: their rows are typed into
\* the workbook.  The second Stock sheet below repeats an item code, which
\* nothing in the program prevents.
InitStocks ==
    { <<>>,
      <<StockRow("A1", "Bolt", 1, 2, 3, 5), StockRow("B2", "Nut", 12, 7, 8, 9)>>,
      <<StockRow("A1", "Bolt", 1, 2, 3, 5), StockRow("A1", "Bolt", 4, 6, 3, 5)>> }

InitOwing ==
    { <<OwingRow("P-1", DateCell(2), FALSE)>>,
      <<OwingRow("P-1", DateCell(2), FALSE), OwingRow("P-2", DateCell(9), TRUE)>> }

Workbook(stock, cheques, owing) ==
    [Stock |-> stock, Sales |-> <<>>, StockUpdate |-> <<>>, Cheques |-> cheques,
     Expenses |-> <<>>, BillToBill |-> <<>>, OwingPurchases |-> owing]

SampleSheet == [name |-> "Cheques", frame |-> Frame(<<"Date", "FutureDate">>, <<>>)]

\* The page has been opened once: the sheets are loaded and every checkbox
\* is registered with its default.
Opened(f, day) ==
    /\ file = f
    /\ chq_state = Flags(f.Cheques, "Claimed")
    /\ own_state = Flags(f.OwingPurchases, "Paid")
    /\ today = day
    /\ alerts = Alerts(f, day)
    /\ last = Summary(NoEvent, [status |-> "ok"])

Init ==
    /\ \E stock \in InitStocks, owing \in InitOwing :
            Opened(Workbook(stock, <<>>, owing), 0)
    /\ sheet = SampleSheet
    /\ loaded = EmptyFrame

InitLedger ==
    /\ \E stock \in InitStocks :
            Opened(Workbook(stock, <<>>, <<OwingRow("P-1", DateCell(2), FALSE)>>), 0)
    /\ sheet = SampleSheet
    /\ loaded = EmptyFrame

InitSales ==
    /\ \E stock \in InitStocks : Opened(Workbook(stock, <<>>, <<>>), 0)
    /\ sheet = SampleSheet
    /\ loaded = EmptyFrame

NextSales == RecordSale \/ Restock

NextLedger ==
    \/ AddCheque \/ ToggleCheque \/ SaveChequeUpdates
    \/ AddExpense
    \/ ToggleOwing \/ SaveOwingUpdates

NextFaults == RecordSaleFailing \/ RestockFailing

Next == NextSales \/ NextFaults \/ NextLedger \/ Refresh

Spec == Init /\ [][Next]_vars

SpecSales == InitSales /\ [][NextSales]_vars

SpecFaults == InitSales /\ [][NextSales \/ NextFaults]_vars

SpecLedger == InitLedger /\ [][NextLedger]_vars

\* Reminders: workbooks whose Cheques sheet holds any mix of parseable,
\* unparseable and empty dates, claimed or not, opened on successive days.
DueCells == {NaCell, TextCell} \cup {DateCell(d) : d \in 0..(MaxDay + HorizonDays + 1)}

DueRows ==
    {[Date |-> DateCell(0), FutureDate |-> c, ItemCode |-> "A1", Qty |-> 1,
      Amount |-> 50, Claimed |-> b] : c \in DueCells, b \in BOOLEAN}

DueTables == UNION {[1..n -> DueRows] : n \in 0..MaxDueRows}

InitDue ==
    /\ \E cheques \in DueTables, owing \in InitOwing :
            Opened(Workbook(<<>>, cheques, owing), 0)
    /\ sheet = SampleSheet
    /\ loaded = EmptyFrame

SpecDue == InitDue /\ [][Refresh]_vars

\* Schema: any sheet of the workbook with any of its required columns
\* missing, and up to MaxSheetRows rows.
RECURSIVE SubSeqs(_)
SubSeqs(s) ==
    IF Len(s) = 0 THEN {<<>>}
    ELSE LET rest == SubSeqs(Tail(s))
         IN  rest \cup {<<Head(s)>> \o r : r \in rest}

RawRow(columns) == [i \in 1..Len(columns) |-> "x"]

RawSheetsOf(n) ==
    {[name |-> n, frame |-> Frame(cols, [r \in 1..k |-> RawRow(cols)])] :
        cols \in SubSeqs(required_sheets[n]), k \in 0..MaxSheetRows}

RawSheets == UNION {RawSheetsOf(n) : n \in SheetNames}

InitSchema ==
    /\ Opened(Workbook(<<>>, <<>>, <<>>), 0)
    /\ sheet \in RawSheets
    /\ loaded = EmptyFrame

NextSchema == LoadSheet \/ SaveSheet

SpecSchema == InitSchema /\ [][NextSchema]_vars

\* -------------------------------------------------------------------- claims

AllCodes == {"A1", "B2", "Z9", "None"}

Codes(stock) == {stock[i].ItemCode : i \in 1..Len(stock)}

Ran(ev) == Script(file, chq_state, own_state, ev)

Sold(ev) == Run(ev) /\ last'.status = "ok"

C1_SalePost(ev) ==
    LET stock == file.Stock
        price == stock[First(Matching(stock, ev.item_code))][ev.price_col]
        row == file'.Sales[Len(file'.Sales)]
    IN  /\ Len(file'.Sales) = Len(file.Sales) + 1
        /\ SubSeq(file'.Sales, 1, Len(file.Sales)) = file.Sales
        /\ row.ItemCode = ev.item_code
        /\ row.Qty = ev.qty
        /\ row.Price = price
        /\ row.Total = ev.qty * price
        /\ Len(file'.Stock) = Len(stock)
        /\ \A i \in 1..Len(stock) :
              file'.Stock[i] =
                [stock[i] EXCEPT !.Stock =
                    IF stock[i].ItemCode = ev.item_code THEN @ - ev.qty ELSE @]
        /\ Ran(ev).df.Sales = file'.Sales
        /\ Ran(ev).df.Stock = file'.Stock

\* C1: for every item code in Stock and every qty >= 1, also one above the
\* stock level, a sale that goes through takes exactly qty off the Stock of
\* the rows with that code, leaves the other rows alone, and appends exactly
\* one Sales row with Qty = qty, Price = the item's value in the chosen
\* price column and Total = qty * Price (in the workbook and in memory).
C1_RecordSale ==
    [][last'.op = "recordSale" =>
          \A ev \in SaleEvents(file) : Sold(ev) => C1_SalePost(ev)]_vars

C1_Witness ==
    /\ last = [op |-> "recordSale", status |-> "ok"]
    /\ Len(file.Sales) = 1
    /\ file.Sales[1].Qty = 2
    /\ file.Sales[1].Total = 2 * file.Sales[1].Price
    /\ \E i \in 1..Len(file.Stock) :
          /\ file.Stock[i].ItemCode = file.Sales[1].ItemCode
          /\ file.Stock[i].Stock = -1

\* C2: a sale for an item code that no Stock row carries (None, when the
\* Stock sheet is empty) ends in an error -- the IndexError that stops the
\* script -- and leaves Stock, Sales and StockUpdate as they were, in
\* memory and in the workbook.
C2_UnknownItem ==
    \A code \in AllCodes \ Codes(file.Stock), qty \in 1..MaxQty,
       price_col \in PriceColumns, invoice_type \in InvoiceTypes, fail \in 0..3 :
        LET s == Ran(SaleEvent(today, code, qty, price_col, invoice_type, "INV-7", fail))
        IN  /\ s.status = "IndexError"
            /\ s.file = file
            /\ s.df.Stock = file.Stock
            /\ s.df.Sales = file.Sales
            /\ s.df.StockUpdate = file.StockUpdate

C2_Witness ==
    /\ last = [op |-> "recordSale", status |-> "IndexError"]
    /\ file.Stock = <<>>
    /\ file.Sales = <<>>
    /\ file.StockUpdate = <<>>

\* C3: a sale with invoice type Credit appends a BillToBill row with
\* Paid = false and the sale's InvoiceID; a Cash sale appends none.
C3_CreditBill ==
    [][\A ev \in SaleEvents(file) :
          Sold(ev) =>
            IF ev.invoice_type = "Credit"
            THEN /\ Len(file'.BillToBill) = Len(file.BillToBill) + 1
                 /\ file'.BillToBill[Len(file'.BillToBill)].Paid = FALSE
                 /\ file'.BillToBill[Len(file'.BillToBill)].InvoiceID = ev.invoice_id
            ELSE file'.BillToBill = file.BillToBill]_vars

\* C4: for every item code in Stock and every qty >= 1, a restock of qty
\* followed by a sale of qty of the same code leaves every Stock row, of
\* that code and of any other, as it was before the restock.
C4_RoundTrip ==
    \A r \in RestockEvents(file), e \in SaleEvents(file) :
        (r.item_code = e.item_code /\ r.qty = e.qty) =>
            LET a == Ran(r)
                b == Script(a.file, a.chq, a.own, e)
            IN  (a.status = "ok" /\ b.status = "ok") =>
                    /\ a.file.Stock # file.Stock
                    /\ b.file.Stock = file.Stock
                    /\ b.df.Stock = file.Stock

C4_Witness ==
    /\ last = [op |-> "recordSale", status |-> "ok"]
    /\ Len(file.StockUpdate) = 2
    /\ file.StockUpdate[1].Type = "Restock"
    /\ file.StockUpdate[2].Type = "Sale"
    /\ file.StockUpdate[1].ItemCode = file.StockUpdate[2].ItemCode
    /\ file.StockUpdate[1].Qty = -file.StockUpdate[2].Qty
    /\ file.Stock \in InitStocks
    /\ Len(file.Stock) = 2

\* C5: a Cheques row is created with Claimed = false, its Claimed value in
\* the workbook never goes from true back to false (so it changes at most
\* once), and no Cheques row is ever deleted.
C5_ChequeLifecycle ==
    [][/\ Len(file'.Cheques) >= Len(file.Cheques)
       /\ \A i \in 1..Len(file.Cheques) :
             file.Cheques[i].Claimed => file'.Cheques[i].Claimed
       /\ \A i \in (Len(file.Cheques) + 1)..Len(file'.Cheques) :
             ~file'.Cheques[i].Claimed]_vars

\* markClaimed / markPaid as the page offers them: the operator makes sure
\* the row's checkbox is ticked and presses the Save button of the tab.
Here == [file |-> file, chq |-> chq_state, own |-> own_state, status |-> "ok"]

markClaimed(st, i) ==
    LET a == IF st.chq[i] THEN st
             ELSE Script(st.file, st.chq, st.own, ToggleChequeEvent(i))
    IN  Script(a.file, a.chq, a.own, SaveChequesEvent(0))

markPaid(st, i) ==
    LET a == IF st.own[i] THEN st
             ELSE Script(st.file, st.chq, st.own, ToggleOwingEvent(i))
    IN  Script(a.file, a.chq, a.own, SaveOwingEvent(0))

SameOutcome(a, b) ==
    /\ a.file = b.file
    /\ a.chq = b.chq
    /\ a.own = b.own
    /\ a.status = b.status

PendingCheques(i) ==
    {j \in 1..Len(file.Cheques) \ {i} : chq_state[j] # file.Cheques[j].Claimed}

PendingOwing(i) ==
    {j \in 1..Len(file.OwingPurchases) \ {i} : own_state[j] # file.OwingPurchases[j].Paid}

DueRow(row, date_col, bool_col, day) ==
    /\ row[bool_col] = FALSE
    /\ row[date_col].k = "date"
    /\ 0 <= row[date_col].d - day
    /\ row[date_col].d - day <= 3

\* C7: the reminder of a sheet is on exactly when some row is not done and
\* its date is 0 to 3 days after today; done rows, rows dated before today
\* or more than 3 days ahead, and rows whose date is empty or not a date
\* never turn it on.
C7_DueSoon ==
    /\ alerts.cheques =
          (\E i \in 1..Len(file.Cheques) :
              DueRow(file.Cheques[i], "FutureDate", "Claimed", today))
    /\ alerts.owing =
          (\E i \in 1..Len(file.OwingPurchases) :
              DueRow(file.OwingPurchases[i], "DueDate", "Paid", today))

C7_Witness ==
    /\ today = 1
    /\ alerts.cheques
    /\ Len(file.Cheques) = 2
    /\ file.Cheques[1].FutureDate = TextCell
    /\ ~file.Cheques[1].Claimed
    /\ file.Cheques[2].FutureDate = DateCell(3)
    /\ ~file.Cheques[2].Claimed

C8_SavePost(ev, order) ==
    LET s == Ran(ev)
    IN  /\ last'.status = "OSError"
        /\ \A k \in 1..Len(order) :
              file'[order[k]] = IF k < ev.fail THEN s.df[order[k]] ELSE file[order[k]]
        /\ \A k \in 1..Len(order) : s.df[order[k]] # file[order[k]]
        /\ \A name \in SheetNames \ Range(order) : file'[name] = file[name]

\* C8: when a save of a sale (Sales, StockUpdate, Stock) or of a restock
\* (StockUpdate, Stock) fails, the saves after it are not made and the
\* sheets saved before it keep their new rows: the workbook can hold the
\* new Sales and StockUpdate rows next to the old Stock level.
C8_PartialSave ==
    [][/\ last'.op = "recordSale" =>
             \A ev \in FailingSaleEvents(file) :
                (Run(ev) /\ ev.item_code \in Codes(file.Stock)) =>
                    C8_SavePost(ev, <<"Sales", "StockUpdate", "Stock">>)
       /\ last'.op = "restock" =>
             \A ev \in FailingRestockEvents(file) :
                (Run(ev) /\ ev.item_code \in Codes(file.Stock)) =>
                    C8_SavePost(ev, <<"StockUpdate", "Stock">>)]_vars

C8_Witness ==
    /\ last = [op |-> "recordSale", status |-> "OSError"]
    /\ Len(file.Sales) = 1
    /\ Len(file.StockUpdate) = 1
    /\ file.StockUpdate[1].Type = "Sale"
    /\ file.Stock \in InitStocks
    /\ Len(file.Stock) > 0

\* C9: load_sheet's column repair is idempotent: repairing a repaired sheet
\* gives the same columns in the same order and the same cells in every row.
C9_EnsureIdempotent ==
    LET cols == required_sheets[sheet.name]
        once == ensure_columns(sheet.frame, cols)
    IN  /\ ensure_columns(once, cols) = once
        /\ loaded # EmptyFrame => ensure_columns(loaded, cols) = loaded

C9_Witness ==
    /\ sheet.name = "Cheques"
    /\ sheet.frame = loaded
    /\ loaded.columns = <<"FutureDate", "Qty", "Date", "ItemCode", "Amount", "Claimed">>
    /\ loaded.data = << <<"x", "x", "NA", "NA", "NA", "False">> >>

\* C10: over any sequence of sales and restocks that all go through, no
\* Stock row is added or removed, and the Stock of every row has changed
\* from its value at the start by exactly the sum of the Qty of the
\* StockUpdate rows logged for its item code (sales negative, restocks
\* positive), each of which was logged by one operation.
C10_Conservation ==
    \E start \in InitStocks :
        /\ Len(file.Stock) = Len(start)
        /\ \A i \in 1..Len(start) :
              file.Stock[i] =
                [start[i] EXCEPT !.Stock =
                    @ + SumSeq(SelectQty(file.StockUpdate, start[i].ItemCode))]
        /\ \A k \in 1..Len(file.StockUpdate) :
              IF file.StockUpdate[k].Type = "Sale"
              THEN file.StockUpdate[k].Qty <= -1
              ELSE file.StockUpdate[k].Type = "Restock" /\ file.StockUpdate[k].Qty >= 1
        /\ Len(file.Sales) =
              Cardinality({k \in 1..Len(file.StockUpdate) : file.StockUpdate[k].Type = "Sale"})

C10_Witness ==
    /\ last = [op |-> "restock", status |-> "ok"]
    /\ Len(file.StockUpdate) = 2
    /\ file.StockUpdate[1].Type = "Sale"
    /\ file.StockUpdate[2].Type = "Restock"
    /\ file.StockUpdate[1].ItemCode = "A1"
    /\ file.StockUpdate[2].ItemCode = "A1"
    /\ file.StockUpdate[1].Qty = -2
    /\ file.StockUpdate[2].Qty = 1
    /\ Len(file.Stock) = 2
    /\ file.Stock[1].Stock = 0
    /\ file.Stock[2] = StockRow("B2", "Nut", 12, 7, 8, 9)

====
